---- MODULE Spec2Model ----
(***************************************************************************)
(* esri-to-geojson: conversion of Esri JSON and of parsed CSV rows to      *)
(* GeoJSON (src/src/index.js).                                             *)
(*                                                                         *)
(* Strings are sequences of one-character strings, so that the character   *)
(* operations of the code (replace, trim, toLowerCase, parseFloat) are     *)
(* computed.  A JavaScript value is a record [t, n, s]: its type tag, its  *)
(* number (when t = "number") and its characters (when t = "string").      *)
(* TLC integers are 32 bits wide, so the epoch-millisecond values of the   *)
(* model lie within +/- 2^31 ms of 1970-01-01.                             *)
(***************************************************************************)
EXTENDS Integers, Naturals, Sequences, FiniteSets, TLC

VARIABLES
    esriJSON,   \* the payload handed to fromEsri (caller-owned)
    options,    \* the second argument of fromEsri (caller-owned)
    args,       \* the arguments of the fromEsri call, as they were on entry
    fields,     \* the catalog convertFields built in the last fromEsri call
    geojson,    \* what the last fromEsri call returned
    threw,      \* whether the last fromEsri call ended by throwing
    pc,         \* "ready": inputs chosen, no call yet; "done": the call returned;
                \* "again": a second call with the same options object returned
    again,      \* the second fromEsri call: its arguments on entry, catalog and result
    csv,        \* the parsed rows handed to fromCSV: the header row, then the data rows
    csvGeojson, \* what the last fromCSV call returned
    csvPc,      \* "ready" before the fromCSV call, "done" after it, "again" after
                \* a second call with the same rows
    csvAgain    \* what the second fromCSV call returned

esriVars == <<esriJSON, options, args, fields, geojson, threw, pc, again>>

csvVars == <<csv, csvGeojson, csvPc, csvAgain>>

vars == <<esriVars, csvVars>>

----------------------------------------------------------------------------
(* JavaScript values *)

Null == [t |-> "null", n |-> 0, s |-> <<>>]

Undefined == [t |-> "undefined", n |-> 0, s |-> <<>>]

NaN == [t |-> "nan", n |-> 0, s |-> <<>>]

Num(k) == [t |-> "number", n |-> k, s |-> <<>>]

Str(cs) == [t |-> "string", n |-> 0, s |-> cs]

\* a === b
StrictEq(a, b) == a.t # "nan" /\ b.t # "nan" /\ a = b

\* obj[key] = val on a plain object (a function from keys to values)
Put(obj, key, val) ==
    [k \in (DOMAIN obj) \cup {key} |-> IF k = key THEN val ELSE obj[k]]

\* obj[key]
Get(obj, key) == IF key \in DOMAIN obj THEN obj[key] ELSE Undefined

EmptyObject == << >>

\* how a call ends: with a value, or by throwing
Return(v) == [threw |-> FALSE, value |-> v]

Throw(v) == [threw |-> TRUE, value |-> v]

----------------------------------------------------------------------------
(* convertFieldName, convertFields *)

\* name.replace(/\.|\(|\)/g, '')
convertFieldName(name) ==
    SelectSeq(name, LAMBDA c : c \notin {".", "(", ")"})

\* an outName that grows each time the descriptor is walked again
WithOutNameSuffixed(field) ==
    [field EXCEPT !.hasOutName = TRUE,
                  !.outName = IF field.hasOutName THEN field.outName \o <<"_">>
                              ELSE convertFieldName(field.name)]

\* field.outName = convertFieldName(field.name)
WithOutName(field) ==
    [field EXCEPT !.hasOutName = TRUE, !.outName = convertFieldName(field.name)]

\* the field list after convertFields has walked it (descriptors mutated in place)
RECURSIVE MarkFields(_)
MarkFields(list) ==
    IF list = << >> THEN << >>
    ELSE <<WithOutName(Head(list))>> \o MarkFields(Tail(list))

\* _.each(infields, field => { field.outName = ...; fields[field.name] = field })
RECURSIVE EachField(_, _)
EachField(list, acc) ==
    IF list = << >> THEN acc
    ELSE EachField(Tail(list), Put(acc, Head(list).name, WithOutName(Head(list))))

\* infields is [def, list]: an array, or undefined (which _.each skips)
convertFields(infields) ==
    IF infields.def THEN EachField(infields.list, EmptyObject) ELSE EmptyObject

----------------------------------------------------------------------------
(* cvd *)

\* _.find(codedValues, d => value === d.code): the index found, 0 when none
RECURSIVE FindCode(_, _, _)
FindCode(codedValues, value, i) ==
    IF i > Len(codedValues) THEN 0
    ELSE IF StrictEq(value, codedValues[i].code) THEN i
    ELSE FindCode(codedValues, value, i + 1)

\* the lookup keeping the last entry that matches instead of the first
RECURSIVE FindLastCode(_, _, _)
FindLastCode(codedValues, value, i) ==
    IF i = 0 THEN 0
    ELSE IF StrictEq(value, codedValues[i].code) THEN i
    ELSE FindLastCode(codedValues, value, i - 1)

cvdLastMatch(value, field) ==
    LET i == FindLastCode(field.domain.codedValues, value, Len(field.domain.codedValues))
    IN  IF i # 0 THEN field.domain.codedValues[i].name ELSE value

cvd(value, field) ==
    LET i == FindCode(field.domain.codedValues, value, 1)
    IN  IF i # 0 THEN field.domain.codedValues[i].name ELSE value

----------------------------------------------------------------------------
(* new Date(inValue).toISOString() *)

MsPerDay == 86400000

MsPerHour == 3600000

MsPerMinute == 60000

MsPerSecond == 1000

\* days from 0000-03-01 to 1970-01-01, and the days of 400 Gregorian years
DaysToEpoch == 719468

DaysPerEra == 146097

DigitChars == <<"0", "1", "2", "3", "4", "5", "6", "7", "8", "9">>

\* the decimal digits of k >= 0, zero-padded to width w
RECURSIVE Pad(_, _)
Pad(k, w) ==
    IF w = 0 THEN << >>
    ELSE Pad(k \div 10, w - 1) \o <<DigitChars[(k % 10) + 1]>>

\* "1970-01-02", the one date-parsable string of the model
IsoDay2 == <<"1", "9", "7", "0", "-", "0", "1", "-", "0", "2">>

\* Date.parse(s): the time value, or invalid for a string that is no date
DateParse(cs) ==
    IF cs = IsoDay2 THEN [valid |-> TRUE, ms |-> MsPerDay]
    ELSE [valid |-> FALSE, ms |-> 0]

\* new Date(v): the time value of the date, or an Invalid Date
NewDate(v) ==
    CASE v.t = "number" -> [valid |-> TRUE, ms |-> v.n]
      [] v.t = "null" -> [valid |-> TRUE, ms |-> 0]
      [] v.t = "string" -> DateParse(v.s)
      [] OTHER -> [valid |-> FALSE, ms |-> 0]

\* Date.prototype.toISOString for a valid time value: YYYY-MM-DDTHH:mm:ss.sssZ
toISOString(ms) ==
    LET day == ms \div MsPerDay
        tod == ms % MsPerDay
        z == day + DaysToEpoch
        era == z \div DaysPerEra
        doe == z - era * DaysPerEra
        yoe == (doe - doe \div 1460 + doe \div 36524 - doe \div 146096) \div 365
        doy == doe - (365 * yoe + yoe \div 4 - yoe \div 100)
        mp == (5 * doy + 2) \div 153
        d == doy - (153 * mp + 2) \div 5 + 1
        m == IF mp < 10 THEN mp + 3 ELSE mp - 9
        y == yoe + era * 400 + (IF m <= 2 THEN 1 ELSE 0)
    IN  Pad(y, 4) \o <<"-">> \o Pad(m, 2) \o <<"-">> \o Pad(d, 2) \o <<"T">>
        \o Pad(tod \div MsPerHour, 2) \o <<":">>
        \o Pad((tod % MsPerHour) \div MsPerMinute, 2) \o <<":">>
        \o Pad((tod % MsPerMinute) \div MsPerSecond, 2) \o <<".">>
        \o Pad(tod % MsPerSecond, 3) \o <<"Z">>

----------------------------------------------------------------------------
(* convertAttribute *)

\* the date branch printing the Invalid Date instead of keeping the raw value
InvalidDate == <<"I", "n", "v", "a", "l", "i", "d", " ", "D", "a", "t", "e">>

DateOrInvalid(inValue) ==
    LET date == NewDate(inValue)
    IN  IF date.valid THEN Str(toISOString(date.ms)) ELSE Str(InvalidDate)

\* try { value = new Date(inValue).toISOString() } catch (e) { value = inValue }
\* toISOString throws a RangeError on an Invalid Date
DateOrRaw(inValue) ==
    LET date == NewDate(inValue)
    IN  IF date.valid THEN Str(toISOString(date.ms)) ELSE inValue

\* convertAttribute without its early return on null
convertAttributeNoNullCheck(attribute, field) ==
    LET inValue == Get(attribute, field.name)
    IN  IF field.domain.type = "codedValue" THEN cvd(inValue, field)
        ELSE IF field.type = "esriFieldTypeDate" THEN DateOrRaw(inValue)
        ELSE inValue

convertAttribute(attribute, field) ==
    LET inValue == Get(attribute, field.name)
    IN  IF inValue = Null THEN inValue
        ELSE IF field.domain.type = "codedValue" THEN cvd(inValue, field)
        ELSE IF field.type = "esriFieldTypeDate" THEN DateOrRaw(inValue)
        ELSE inValue

----------------------------------------------------------------------------
(* parseGeometry *)

NullGeometry == [null |-> TRUE, type |-> "", hasCoordinates |-> FALSE, coordinates |-> << >>]

Geometry(type, hasCoordinates, coordinates) ==
    [null |-> FALSE, type |-> type, hasCoordinates |-> hasCoordinates,
     coordinates |-> coordinates]

\* arcgisToGeoJSON of the arcgis-to-geojson-utils package, by the shape of the
\* Esri geometry: what it returns, or that it throws
arcgisToGeoJSON(geometry) ==
    CASE geometry.k = "point" ->
            [threw |-> FALSE,
             parsed |-> Geometry("Point", TRUE, <<Num(geometry.x), Num(geometry.y)>>)]
      [] geometry.k = "empty" ->
            [threw |-> FALSE, parsed |-> Geometry("", FALSE, << >>)]
      [] geometry.k = "feature" ->
            [threw |-> FALSE, parsed |-> Geometry("Feature", FALSE, << >>)]
      [] geometry.k = "untyped" ->
            [threw |-> FALSE,
             parsed |-> Geometry("", TRUE, <<Num(geometry.x), Num(geometry.y)>>)]
      [] OTHER -> [threw |-> TRUE, parsed |-> NullGeometry]

\* a geometry that is null or absent is falsy
Falsy(geometry) == geometry.k \in {"null", "undefined"}

\* parseGeometry without its try/catch and without the check of the result
parseGeometryUnchecked(geometry) ==
    LET r == IF Falsy(geometry) THEN [threw |-> FALSE, parsed |-> NullGeometry]
             ELSE arcgisToGeoJSON(geometry)
    IN  IF r.threw THEN Throw(NullGeometry) ELSE Return(r.parsed)

\* try { ... } catch (e) { console.error(e); return null }
parseGeometry(geometry) ==
    LET r == IF Falsy(geometry) THEN [threw |-> FALSE, parsed |-> NullGeometry]
             ELSE arcgisToGeoJSON(geometry)
    IN  IF r.threw THEN Return(NullGeometry)
        ELSE IF ~r.parsed.null /\ r.parsed.type # "" /\ r.parsed.hasCoordinates
             THEN Return(r.parsed)
        ELSE Return(NullGeometry)

----------------------------------------------------------------------------
(* transformFeature *)

\* one turn of _.each(Object.keys(feature.attributes), ...): fields[name].outName
\* throws when the catalog has no entry for name, and the catch drops the attribute
EachAttribute(attributes, pair, catalog) ==
    LET name == pair[1]
        attr == Put(EmptyObject, name, pair[2])
    IN  IF name \notin DOMAIN catalog THEN attributes
        ELSE Put(attributes, catalog[name].outName,
                 convertAttribute(attr, catalog[name]))

\* the loop with the try/catch around it: the first attribute without a catalog
\* entry ends it
RECURSIVE EachAttributesUntilMissing(_, _, _)
EachAttributesUntilMissing(pairs, catalog, attributes) ==
    IF pairs = << >> THEN attributes
    ELSE IF Head(pairs)[1] \notin DOMAIN catalog THEN attributes
    ELSE EachAttributesUntilMissing(Tail(pairs), catalog,
                                    EachAttribute(attributes, Head(pairs), catalog))

RECURSIVE EachAttributes(_, _, _)
EachAttributes(pairs, catalog, attributes) ==
    IF pairs = << >> THEN attributes
    ELSE EachAttributes(Tail(pairs), catalog,
                        EachAttribute(attributes, Head(pairs), catalog))

\* an exception of parseGeometry would leave transformFeature
transformFeature(feature, catalog) ==
    LET attributes == IF feature.hasAttributes
                      THEN EachAttributes(feature.attributes, catalog, EmptyObject)
                      ELSE EmptyObject
        geometry == parseGeometry(feature.geometry)
    IN  [threw |-> geometry.threw,
         value |-> [type |-> "Feature", properties |-> attributes,
                    geometry |-> geometry.value]]

----------------------------------------------------------------------------
(* fromEsri *)

\* the map leaving out the features whose geometry came out null
RECURSIVE MapFeaturesWithGeometry(_, _)
MapFeaturesWithGeometry(features, catalog) ==
    IF features = << >> THEN Return(<< >>)
    ELSE LET first == transformFeature(Head(features), catalog)
             rest == MapFeaturesWithGeometry(Tail(features), catalog)
         IN  IF first.threw THEN Throw(<< >>)
             ELSE [threw |-> rest.threw,
                   value |-> (IF first.value.geometry.null THEN << >>
                              ELSE <<first.value>>) \o rest.value]

\* _.map(esriJSON.features, feature => transformFeature(feature, fields))
RECURSIVE MapFeatures(_, _)
MapFeatures(features, catalog) ==
    IF features = << >> THEN Return(<< >>)
    ELSE LET first == transformFeature(Head(features), catalog)
             rest == MapFeatures(Tail(features), catalog)
         IN  IF first.threw THEN Throw(<< >>)
             ELSE [threw |-> rest.threw, value |-> <<first.value>> \o rest.value]

NoFields == [def |-> FALSE, list |-> << >>]

FieldList(list) == [def |-> TRUE, list |-> list]

\* if (!options) options = {}: the object fromEsri works on
LocalOptions(opts) ==
    IF opts.k \in {"undefined", "null"}
    THEN [k |-> "object", items |-> << >>, fields |-> NoFields]
    ELSE opts

\* if (!options.fields) options.fields = esriJSON.fields: an array, even an
\* empty one, is truthy; the raw field array has no fields property of its own
EffectiveFields(json, opts) ==
    IF ~LocalOptions(opts).fields.def THEN json.fields
    ELSE LocalOptions(opts).fields

fromEsri(json, opts) ==
    LET catalog == convertFields(EffectiveFields(json, opts))
        features == MapFeatures(json.features, catalog)
    IN  [threw |-> features.threw,
         value |-> [type |-> "FeatureCollection", features |-> features.value]]

----------------------------------------------------------------------------
(* Strings and numbers of fromCSV.  The cells of the model hold digits, signs, *)
(* spaces, commas and letters, no decimal point and no exponent.               *)

IsSpace(c) == c \in {" ", "\t"}

RECURSIVE TrimLeft(_)
TrimLeft(cs) ==
    IF cs # << >> /\ IsSpace(Head(cs)) THEN TrimLeft(Tail(cs)) ELSE cs

RECURSIVE TrimRight(_)
TrimRight(cs) ==
    IF cs # << >> /\ IsSpace(cs[Len(cs)]) THEN TrimRight(SubSeq(cs, 1, Len(cs) - 1))
    ELSE cs

\* String.prototype.trim
Trim(cs) == TrimRight(TrimLeft(cs))

UpperCase ==
    <<"A", "B", "C", "D", "E", "F", "G", "H", "I", "J", "K", "L", "M",
      "N", "O", "P", "Q", "R", "S", "T", "U", "V", "W", "X", "Y", "Z">>

LowerCase ==
    <<"a", "b", "c", "d", "e", "f", "g", "h", "i", "j", "k", "l", "m",
      "n", "o", "p", "q", "r", "s", "t", "u", "v", "w", "x", "y", "z">>

LowerChar(c) ==
    IF \E i \in 1..Len(UpperCase) : UpperCase[i] = c
    THEN LowerCase[CHOOSE i \in 1..Len(UpperCase) : UpperCase[i] = c]
    ELSE c

\* String.prototype.toLowerCase
toLowerCase(cs) == [i \in 1..Len(cs) |-> LowerChar(cs[i])]

IsDigit(c) == \E d \in 1..Len(DigitChars) : DigitChars[d] = c

\* the value of a run of decimal digits
RECURSIVE DigitsValue(_)
DigitsValue(cs) ==
    IF cs = << >> THEN 0
    ELSE 10 * DigitsValue(SubSeq(cs, 1, Len(cs) - 1))
         + (CHOOSE d \in 0..9 : DigitChars[d + 1] = cs[Len(cs)])

\* the longest prefix of digits
RECURSIVE DigitPrefix(_)
DigitPrefix(cs) ==
    IF cs # << >> /\ IsDigit(Head(cs)) THEN <<Head(cs)>> \o DigitPrefix(Tail(cs))
    ELSE << >>

Signed(cs) == cs # << >> /\ Head(cs) \in {"-", "+"}

Unsigned(cs) == IF Signed(cs) THEN Tail(cs) ELSE cs

SignOf(cs) == IF cs # << >> /\ Head(cs) = "-" THEN -1 ELSE 1

\* parseFloat of a string: leading white space, a sign, then the longest run of
\* digits; NaN when there is no digit
parseFloatString(cs) ==
    LET t == TrimLeft(cs)
        digits == DigitPrefix(Unsigned(t))
    IN  IF digits = << >> THEN NaN ELSE Num(SignOf(t) * DigitsValue(digits))

\* parseFloat of a value: undefined (a missing cell) gives NaN
parseFloat(v) == IF v.t = "string" THEN parseFloatString(v.s) ELSE NaN

\* Number(string), the coercion isNaN applies: the whole trimmed string must be
\* a number, and the empty string is 0
ToNumber(cs) ==
    LET t == Trim(cs)
        digits == Unsigned(t)
    IN  IF t = << >> THEN Num(0)
        ELSE IF digits # << >> /\ DigitPrefix(digits) = digits
             THEN Num(SignOf(t) * DigitsValue(digits))
        ELSE NaN

isNaN(cs) == ToNumber(cs) = NaN

\* col.replace(/,/g, '')
RemoveCommas(cs) == SelectSeq(cs, LAMBDA c : c # ",")

\* i + '' for an index i >= 0
RECURSIVE IndexString(_)
IndexString(i) ==
    IF i < 10 THEN <<DigitChars[i + 1]>>
    ELSE IndexString(i \div 10) \o <<DigitChars[(i % 10) + 1]>>

\* parseInt(s, 10) of an index string
parseInt(cs) == DigitsValue(DigitPrefix(cs))

\* what an if or an && takes for true
Truthy(v) ==
    \/ v.t = "string" /\ v.s # << >>
    \/ v.t = "number" /\ v.n # 0

----------------------------------------------------------------------------
(* fromCSV *)

LatNames ==
    {<<"l", "a", "t">>,
     <<"l", "a", "t", "i", "t", "u", "d", "e">>,
     <<"l", "a", "t", "i", "t", "u", "d", "e", "_", "d", "e", "g">>,
     <<"y">>}

LonNames ==
    {<<"l", "o", "n">>,
     <<"l", "o", "n", "g", "i", "t", "u", "d", "e">>,
     <<"l", "o", "n", "g", "i", "t", "u", "d", "e", "_", "d", "e", "g">>,
     <<"x">>}

\* the header loop that keeps the first column found for lat and for lon
RECURSIVE HeaderLoopFirstMatch(_, _, _)
HeaderLoopFirstMatch(headers, i, found) ==
    IF i >= Len(headers) THEN found
    ELSE LET h == toLowerCase(Trim(headers[i + 1]))
         IN  HeaderLoopFirstMatch(
                 headers, i + 1,
                 IF h \in LatNames /\ found.lat = Null
                 THEN [found EXCEPT !.lat = Str(IndexString(i))]
                 ELSE IF h \in LonNames /\ found.lon = Null
                      THEN [found EXCEPT !.lon = Str(IndexString(i))]
                 ELSE found)

\* headers.forEach((h, i) => { switch (h.trim().toLowerCase()) ... }): lat and
\* lon after the headers up to index i (0-based) have been seen
RECURSIVE HeaderLoop(_, _, _)
HeaderLoop(headers, i, found) ==
    IF i >= Len(headers) THEN found
    ELSE LET h == toLowerCase(Trim(headers[i + 1]))
         IN  HeaderLoop(headers, i + 1,
                        IF h \in LatNames THEN [found EXCEPT !.lat = Str(IndexString(i))]
                        ELSE IF h \in LonNames
                             THEN [found EXCEPT !.lon = Str(IndexString(i))]
                        ELSE found)

\* let lat = null, lon = null, then the header loop
LatLon(headers) == HeaderLoop(headers, 0, [lat |-> Null, lon |-> Null])

\* row[k] for a 0-based k
Cell(row, k) == IF k + 1 \in 1..Len(row) THEN Str(row[k + 1]) ELSE Undefined

sUndefined == <<"u", "n", "d", "e", "f", "i", "n", "e", "d">>

sOBJECTID == <<"O", "B", "J", "E", "C", "T", "I", "D">>

\* headers[j] as a property key: a missing header gives the key "undefined"
HeaderKey(headers, j) == IF j + 1 \in 1..Len(headers) THEN headers[j + 1] ELSE sUndefined

\* (!isNaN(colNum)) ? parseFloat(colNum) : col
CellProperty(col) ==
    LET colNum == RemoveCommas(col)
    IN  IF ~isNaN(colNum) THEN parseFloatString(colNum) ELSE Str(col)

\* row.forEach((col, j) => { feature.properties[headers[j]] = ... })
RECURSIVE RowLoop(_, _, _, _)
RowLoop(headers, row, j, properties) ==
    IF j >= Len(row) THEN properties
    ELSE RowLoop(headers, row, j + 1,
                 Put(properties, HeaderKey(headers, j), CellProperty(row[j + 1])))

\* the point with the latitude put first
PointLatitudeFirst(row, found) ==
    Geometry("Point", TRUE,
             <<parseFloat(Cell(row, parseInt(found.lat.s))),
               parseFloat(Cell(row, parseInt(found.lon.s)))>>)

\* [parseFloat(row[parseInt(lon, 10)]), parseFloat(row[parseInt(lat, 10)])]
PointOf(row, found) ==
    Geometry("Point", TRUE,
             <<parseFloat(Cell(row, parseInt(found.lon.s))),
               parseFloat(Cell(row, parseInt(found.lat.s)))>>)

\* the test with || for &&
HasLatOrLon(found) == Truthy(found.lat) \/ Truthy(found.lon)

\* if (lat && lon) feature.geometry = { type: 'Point', coordinates: [...] }
HasLatLon(found) == Truthy(found.lat) /\ Truthy(found.lon)

\* the else branch of csv.forEach: the feature of data row i
CsvFeature(headers, found, row, i) ==
    [type |-> "Feature",
     id |-> i,
     properties |-> Put(RowLoop(headers, row, 0, EmptyObject), sOBJECTID, Num(i)),
     geometry |-> IF HasLatLon(found) THEN PointOf(row, found) ELSE NullGeometry]

\* the loop with each feature put in front of the earlier ones
RECURSIVE CsvLoopNewestFirst(_, _, _)
CsvLoopNewestFirst(rows, i, features) ==
    IF i >= Len(rows) THEN features
    ELSE CsvLoopNewestFirst(rows, i + 1,
                            <<CsvFeature(rows[1], LatLon(rows[1]), rows[i + 1], i)>>
                                \o features)

\* csv.forEach((row, i) => ...) from row i on (0-based), row 0 being the headers
RECURSIVE CsvLoop(_, _, _)
CsvLoop(rows, i, features) ==
    IF i >= Len(rows) THEN features
    ELSE CsvLoop(rows, i + 1,
                 Append(features, CsvFeature(rows[1], LatLon(rows[1]), rows[i + 1], i)))

fromCSV(rows) ==
    [type |-> "FeatureCollection",
     features |-> IF rows = << >> THEN << >> ELSE CsvLoop(rows, 1, << >>)]

----------------------------------------------------------------------------
(* The inputs of fromEsri *)

MaxFeatures == 2

NoDomain == [type |-> "absent", codedValues |-> << >>]

Field(name, type, domain) ==
    [name |-> name, type |-> type, domain |-> domain,
     hasOutName |-> FALSE, outName |-> << >>]

nN == <<"N">>

nD == <<"d">>

nE == <<"e">>

nR == <<"r">>

nDot == <<"a", ".", "(", "b", ")">>

nAB == <<"a", "b">>

nZ == <<"z", "z">>

nSpace == <<"a", " ", "c">>

\* codes 0 and "0" differ under ===; the code 0 is listed twice
fNAME ==
    Field(nN, "esriFieldTypeSmallInteger",
          [type |-> "codedValue",
           codedValues |-> <<[name |-> Str(<<"N", "0">>), code |-> Num(0)],
                             [name |-> Str(<<"N", "1">>), code |-> Num(1)],
                             [name |-> Str(<<"D", "u", "p">>), code |-> Num(0)],
                             [name |-> Str(<<"S", "0">>), code |-> Str(<<"0">>)]>>])

fDate == Field(nD, "esriFieldTypeDate", NoDomain)

fDateCoded ==
    Field(nE, "esriFieldTypeDate",
          [type |-> "codedValue",
           codedValues |-> <<[name |-> Str(<<"D", "a", "y">>), code |-> Num(MsPerDay)]>>])

fDateRange == Field(nR, "esriFieldTypeDate", [type |-> "range", codedValues |-> << >>])

fDot == Field(nDot, "esriFieldTypeString", NoDomain)

fAB == Field(nAB, "esriFieldTypeString", NoDomain)

fSpace == Field(nSpace, "esriFieldTypeString", NoDomain)

AllFields == <<fNAME, fDate, fDateCoded, fDateRange, fDot, fAB, fSpace>>

PayloadFields ==
    {NoFields, FieldList(<< >>), FieldList(AllFields), FieldList(<<fNAME, fDot>>)}

OptionLists == {<< >>, AllFields, <<fDate, fAB>>}

Options ==
    {[k |-> "undefined", items |-> << >>, fields |-> NoFields],
     [k |-> "null", items |-> << >>, fields |-> NoFields],
     [k |-> "object", items |-> << >>, fields |-> NoFields]}
    \cup {[k |-> "object", items |-> << >>, fields |-> FieldList(l)] : l \in OptionLists}
    \cup {[k |-> "array", items |-> l, fields |-> NoFields] : l \in OptionLists}

EsriGeometry(k, x, y) == [k |-> k, x |-> x, y |-> y]

EsriFeature(pairs, geometry) ==
    [hasAttributes |-> TRUE, attributes |-> pairs, geometry |-> geometry]

sAbc == Str(<<"a", "b", "c">>)

Features ==
    {EsriFeature(<<<<nN, Num(0)>>, <<nD, Num(MsPerDay)>>, <<nZ, Num(1)>>>>,
                 EsriGeometry("point", -60, 30)),
     EsriFeature(<<<<nZ, Num(5)>>, <<nN, Num(1)>>, <<nE, Num(MsPerDay)>>>>,
                 EsriGeometry("null", 0, 0)),
     EsriFeature(<<<<nN, Str(<<"0">>)>>, <<nD, Null>>, <<nE, Null>>, <<nR, Null>>>>,
                 EsriGeometry("undefined", 0, 0)),
     EsriFeature(<<<<nN, Null>>, <<nDot, Str(<<"x">>)>>, <<nAB, Str(<<"y">>)>>>>,
                 EsriGeometry("empty", 0, 0)),
     EsriFeature(<<<<nAB, Str(<<"y">>)>>, <<nDot, Null>>, <<nD, sAbc>>>>,
                 EsriGeometry("feature", 0, 0)),
     EsriFeature(<<<<nN, Num(2)>>, <<nD, NaN>>, <<nR, Num(1000000000)>>>>,
                 EsriGeometry("malformed", 0, 0)),
     [hasAttributes |-> FALSE, attributes |-> << >>,
      geometry |-> EsriGeometry("untyped", 1, 2)],
     EsriFeature(<<<<nN, Str(<<" ">>)>>, <<nD, Str(IsoDay2)>>, <<nE, Num(1)>>>>,
                 EsriGeometry("point", 0, 0)),
     EsriFeature(<<<<nN, NaN>>, <<nD, Num(-1)>>, <<nR, sAbc>>, <<nZ, Null>>>>,
                 EsriGeometry("point", 90, -180)),
     EsriFeature(<< >>, EsriGeometry("null", 0, 0))}

\* the sequences over S of length at most n
SeqsUpTo(S, n) == UNION {[1..k -> S] : k \in 0..n}

NoCollection == [type |-> "FeatureCollection", features |-> << >>]

\* no second call yet
NoCall ==
    [args |-> [json |-> [fields |-> NoFields, features |-> << >>],
               opts |-> [k |-> "undefined", items |-> << >>, fields |-> NoFields]],
     fields |-> EmptyObject,
     geojson |-> NoCollection,
     threw |-> FALSE]

Init ==
    /\ esriJSON \in [fields : PayloadFields, features : SeqsUpTo(Features, MaxFeatures)]
    /\ options \in Options
    /\ args = [json |-> esriJSON, opts |-> options]
    /\ fields = EmptyObject
    /\ geojson = NoCollection
    /\ threw = FALSE
    /\ pc = "ready"
    /\ again = NoCall
    /\ csv = << >>
    /\ csvGeojson = NoCollection
    /\ csvPc = "idle"
    /\ csvAgain = NoCollection

\* the field array fromEsri hands to convertFields is esriJSON.fields itself
\* unless the options carried a fields array of their own
UsesPayloadFields(opts) == ~LocalOptions(opts).fields.def

Marked(fl) == [def |-> fl.def, list |-> MarkFields(fl.list)]

\* geojson = toGeoJSON.fromEsri(esriJSON, options), with what the call does to
\* the caller's objects: options.fields is assigned when it was falsy, and every
\* descriptor convertFields walks gets its outName
CallFromEsri ==
    /\ pc = "ready"
    /\ args' = [json |-> esriJSON, opts |-> options]
    /\ fields' = convertFields(EffectiveFields(esriJSON, options))
    /\ threw' = fromEsri(esriJSON, options).threw
    /\ geojson' = IF fromEsri(esriJSON, options).threw THEN geojson
                  ELSE fromEsri(esriJSON, options).value
    /\ esriJSON' = IF UsesPayloadFields(options)
                   THEN [esriJSON EXCEPT !.fields = Marked(esriJSON.fields)]
                   ELSE esriJSON
    /\ options' = IF options.k \in {"undefined", "null"} THEN options
                  ELSE [options EXCEPT
                            !.fields = Marked(EffectiveFields(esriJSON, options))]
    /\ pc' = "done"
    /\ UNCHANGED <<again, csvVars>>

\* a second call toGeoJSON.fromEsri(json, options) with the options object of the
\* first call as that call left it; json is the first payload itself, or a
\* payload with the same features and other fields
CallFromEsriAgain ==
    /\ pc = "done"
    /\ \E pf \in PayloadFields \cup {esriJSON.fields} :
           LET json == [esriJSON EXCEPT !.fields = pf]
               result == fromEsri(json, options)
           IN  /\ again' = [args |-> [json |-> json, opts |-> options],
                            fields |-> convertFields(EffectiveFields(json, options)),
                            geojson |-> IF result.threw THEN NoCollection
                                        ELSE result.value,
                            threw |-> result.threw]
               /\ esriJSON' = IF pf = esriJSON.fields /\ UsesPayloadFields(options)
                              THEN [esriJSON EXCEPT !.fields = Marked(esriJSON.fields)]
                              ELSE esriJSON
               /\ options' = IF options.k \in {"undefined", "null"} THEN options
                             ELSE [options EXCEPT
                                       !.fields = Marked(EffectiveFields(json, options))]
    /\ pc' = "again"
    /\ UNCHANGED <<args, fields, geojson, threw, csvVars>>

Next == CallFromEsri \/ CallFromEsriAgain

Spec == Init /\ [][Next]_vars

----------------------------------------------------------------------------
(* The inputs of fromCSV *)

MaxRows == 2

hY == <<"y">>

hX == <<"x">>

hLat == <<"l", "a", "t">>

hLon == <<"l", "o", "n">>

hLatitude == <<"l", "a", "t", "i", "t", "u", "d", "e">>

hLongitude == <<"l", "o", "n", "g", "i", "t", "u", "d", "e">>

hLatDeg == <<"l", "a", "t", "i", "t", "u", "d", "e", "_", "d", "e", "g">>

hLonDeg == <<"l", "o", "n", "g", "i", "t", "u", "d", "e", "_", "d", "e", "g">>

hPadX == <<" ", "X", " ">>

hLAT == <<"L", "a", "T">>

hFakeY == <<"f", "a", "k", "e", "Y">>

hFakeX == <<"f", "a", "k", "e", "X">>

hName == <<"n", "a", "m", "e">>

hNameSays == <<"n", "a", "m", "e", ".", "S", "a", "y", "s">>

hSentimentOpinion ==
    <<"s", "e", "n", "t", "i", "m", "e", "n", "t", " ", "o", "p", "i", "n", "i", "o", "n">>

HeaderRows ==
    {<<hY, hX>>, <<hX, hY>>, <<hLat, hLon>>, <<hLatitude, hLongitude>>,
     <<hLatDeg, hLonDeg>>, <<hPadX, hLAT>>, <<hFakeY, hFakeX>>, <<hX, hName>>,
     <<hName, hY>>, <<hName, hX, hY>>, <<hX, hY, hX>>, <<hLat, hLon, hY>>,
     <<sOBJECTID, hName>>, <<hNameSays, hSentimentOpinion>>}

c90 == <<"9", "0">>

cNeg180 == <<"-", "1", "8", "0">>

c0 == <<"0">>

cAbc == <<"a", "b", "c">>

cEmpty == << >>

cPad7 == <<" ", "7">>

cThousand == <<"1", ",", "0", "0", "0">>

c12a == <<"1", "2", "a">>

cBlank == <<" ", " ">>

CoordCells == {c90, cNeg180}

DataRows ==
    [1..2 -> CoordCells]
    \cup {<<c90, cAbc>>, <<cNeg180, c0>>, <<c0, cAbc>>, <<cEmpty, c90>>,
          <<cPad7, cThousand>>, <<c12a, c90>>, <<cBlank, c90>>, <<c90>>,
          <<c90, cNeg180, cAbc>>, <<cThousand, cPad7, cNeg180>>}

InitCSV ==
    /\ csv \in {<<h>> \o rows : h \in HeaderRows, rows \in SeqsUpTo(DataRows, MaxRows)}
    /\ csvGeojson = NoCollection
    /\ csvPc = "ready"
    /\ esriJSON = [fields |-> NoFields, features |-> << >>]
    /\ options = [k |-> "undefined", items |-> << >>, fields |-> NoFields]
    /\ args = [json |-> esriJSON, opts |-> options]
    /\ fields = EmptyObject
    /\ geojson = NoCollection
    /\ threw = FALSE
    /\ pc = "idle"
    /\ again = NoCall
    /\ csvAgain = NoCollection

\* csvGeojson = toGeoJSON.fromCSV(csv)
CallFromCSV ==
    /\ csvPc = "ready"
    /\ csvGeojson' = fromCSV(csv)
    /\ csvPc' = "done"
    /\ UNCHANGED <<csv, csvAgain, esriVars>>

\* csvAgain = toGeoJSON.fromCSV(csv), a second call with the same rows
CallFromCSVAgain ==
    /\ csvPc = "done"
    /\ csvAgain' = fromCSV(csv)
    /\ csvPc' = "again"
    /\ UNCHANGED <<csv, csvGeojson, esriVars>>

NextCSV == CallFromCSV \/ CallFromCSVAgain

SpecCSV == InitCSV /\ [][NextCSV]_vars

----------------------------------------------------------------------------
(* Either function of the module, called once and then again *)

InitAll == Init \/ InitCSV

NextAll == Next \/ NextCSV

SpecAll == InitAll /\ [][NextAll]_vars

----------------------------------------------------------------------------
(* What the claims are stated over *)

Done == pc = "done"

InFeatures == args.json.features

OutFeatures == geojson.features

\* the sites <<k, i>>: attribute i of input feature k
AttributeSites ==
    UNION {{<<k, i>> : i \in 1..Len(InFeatures[k].attributes)} :
           k \in 1..Len(InFeatures)}

AttrName(site) == InFeatures[site[1]].attributes[site[2]][1]

AttrValue(site) == InFeatures[site[1]].attributes[site[2]][2]

HasEntry(site) == AttrName(site) \in DOMAIN fields

Descriptor(site) == fields[AttrName(site)]

\* no later attribute of the same feature is written under the same outName
LastWriter(site) ==
    \A j \in (site[2] + 1)..Len(InFeatures[site[1]].attributes) :
        HasEntry(<<site[1], j>>)
            => Descriptor(<<site[1], j>>).outName # Descriptor(site).outName

OutProperties(k) ==
    IF k \in 1..Len(OutFeatures) THEN OutFeatures[k].properties ELSE EmptyObject

HasProperty(site) == Descriptor(site).outName \in DOMAIN OutProperties(site[1])

Property(site) == Get(OutProperties(site[1]), Descriptor(site).outName)

----------------------------------------------------------------------------
(* C1 *)

\* C1: fromEsri returns a FeatureCollection with exactly one feature per input
\* feature, the k-th being the conversion of the k-th input feature under the
\* catalog of the call, and it does not throw, whatever the features' attributes
\* and geometries are.
C1_OneFeaturePerInput ==
    Done =>
        /\ ~threw
        /\ geojson.type = "FeatureCollection"
        /\ Len(OutFeatures) = Len(InFeatures)
        /\ \A k \in 1..Len(InFeatures) :
               /\ OutFeatures[k].type = "Feature"
               /\ OutFeatures[k] = transformFeature(InFeatures[k], fields).value

\* two different features, one without attributes and one whose geometry makes
\* the conversion throw, came out as two features
C1_Witness ==
    /\ Done
    /\ Len(OutFeatures) = 2
    /\ OutFeatures[1] # OutFeatures[2]
    /\ \E k \in 1..2 : ~InFeatures[k].hasAttributes
    /\ \E k \in 1..2 : InFeatures[k].geometry.k = "malformed"

----------------------------------------------------------------------------
(* C2 *)

\* the field list the caller supplied, raw or under the fields key, when it is
\* supplied and non-empty; the payload's own fields otherwise
SuppliedFields(json, opts) ==
    IF opts.k = "array" /\ opts.items # << >> THEN FieldList(opts.items)
    ELSE IF opts.k = "object" /\ opts.fields.def /\ opts.fields.list # << >>
         THEN opts.fields
    ELSE json.fields

\* C2: the catalog is built from the caller-supplied field list whenever that
\* list is supplied and non-empty (raw, or wrapped under the fields key), and from
\* the payload's fields when it is absent or empty.
C2_CatalogFromSuppliedFields ==
    Done => fields = convertFields(SuppliedFields(args.json, args.opts))

----------------------------------------------------------------------------
(* C3 *)

\* the name of the first entry, in list order, whose code === value; the value
\* itself when there is none
FirstMatchOrRaw(value, codedValues) ==
    LET matches == {i \in 1..Len(codedValues) : StrictEq(value, codedValues[i].code)}
    IN  IF matches = {} THEN value
        ELSE codedValues[CHOOSE i \in matches : \A j \in matches : i <= j].name

CodedSite(site) ==
    /\ HasEntry(site)
    /\ Descriptor(site).domain.type = "codedValue"
    /\ AttrValue(site) # Null
    /\ LastWriter(site)

\* C3: a non-null value of a field with a coded-value domain comes out as the
\* name of the first coded value whose code is strictly equal to it, and
\* unchanged when no code matches.
C3_CodedValueDecoded ==
    Done =>
        \A site \in AttributeSites :
            CodedSite(site) =>
                /\ HasProperty(site)
                /\ Property(site) =
                       FirstMatchOrRaw(AttrValue(site), Descriptor(site).domain.codedValues)

\* one value matched a code that the domain lists twice and came out as the
\* first name; another matched no code (the string "0" is not the number 0's
\* entry, " " and 2 are no code) and came out unchanged
C3_Witness ==
    /\ Done
    /\ \E site \in AttributeSites :
           /\ CodedSite(site)
           /\ AttrValue(site) = Num(0)
           /\ Property(site) = Str(<<"N", "0">>)
    /\ \E site \in AttributeSites :
           /\ CodedSite(site)
           /\ AttrValue(site) \in {Num(2), Str(<<" ">>), NaN}
           /\ Property(site) = AttrValue(site)

----------------------------------------------------------------------------
(* C4 *)

\* C4: a null attribute value comes out as null for every descriptor, date-typed
\* or not, with a coded-value domain or not.
C4_NullPassesThrough ==
    Done =>
        \A site \in AttributeSites :
            (HasEntry(site) /\ AttrValue(site) = Null /\ LastWriter(site)) =>
                /\ HasProperty(site)
                /\ Property(site) = Null

\* in one feature a null came out as null for a date field without a domain,
\* for a date field with a coded-value domain and for a date field with a
\* range domain
C4_Witness ==
    /\ Done
    /\ \E k \in 1..Len(InFeatures) :
           \A name \in {nD, nE, nR} :
               \E i \in 1..Len(InFeatures[k].attributes) :
                   /\ AttrName(<<k, i>>) = name
                   /\ HasEntry(<<k, i>>)
                   /\ Descriptor(<<k, i>>).type = "esriFieldTypeDate"
                   /\ AttrValue(<<k, i>>) = Null
                   /\ Property(<<k, i>>) = Null

----------------------------------------------------------------------------
(* C5 *)

DigitValue(c) == (CHOOSE d \in 1..10 : DigitChars[d] = c) - 1

IsDigits(cs) == \A i \in 1..Len(cs) : \E d \in 1..10 : DigitChars[d] = cs[i]

RECURSIVE FromDigits(_)
FromDigits(cs) ==
    IF cs = << >> THEN 0
    ELSE 10 * FromDigits(SubSeq(cs, 1, Len(cs) - 1)) + DigitValue(cs[Len(cs)])

\* YYYY-MM-DDTHH:mm:ss.sssZ
WellFormedIso(cs) ==
    /\ Len(cs) = 24
    /\ cs[5] = "-" /\ cs[8] = "-" /\ cs[11] = "T" /\ cs[14] = ":" /\ cs[17] = ":"
    /\ cs[20] = "." /\ cs[24] = "Z"
    /\ IsDigits(SubSeq(cs, 1, 4) \o SubSeq(cs, 6, 7) \o SubSeq(cs, 9, 10)
                \o SubSeq(cs, 12, 13) \o SubSeq(cs, 15, 16) \o SubSeq(cs, 18, 19)
                \o SubSeq(cs, 21, 23))
    /\ FromDigits(SubSeq(cs, 6, 7)) \in 1..12
    /\ FromDigits(SubSeq(cs, 9, 10)) \in 1..31
    /\ FromDigits(SubSeq(cs, 12, 13)) \in 0..23
    /\ FromDigits(SubSeq(cs, 15, 16)) \in 0..59
    /\ FromDigits(SubSeq(cs, 18, 19)) \in 0..59

\* the days from 1970-01-01 to the civil date y-m-d
DaysFromCivil(y, m, d) ==
    LET yy == IF m <= 2 THEN y - 1 ELSE y
        era == yy \div 400
        yoe == yy - era * 400
        doy == (153 * (IF m > 2 THEN m - 3 ELSE m + 9) + 2) \div 5 + d - 1
        doe == yoe * 365 + yoe \div 4 - yoe \div 100 + doy
    IN  era * 146097 + doe - 719468

\* the instant a well-formed ISO-8601 UTC string denotes, in milliseconds
IsoToMs(cs) ==
    DaysFromCivil(FromDigits(SubSeq(cs, 1, 4)), FromDigits(SubSeq(cs, 6, 7)),
                  FromDigits(SubSeq(cs, 9, 10))) * 86400000
    + FromDigits(SubSeq(cs, 12, 13)) * 3600000
    + FromDigits(SubSeq(cs, 15, 16)) * 60000
    + FromDigits(SubSeq(cs, 18, 19)) * 1000
    + FromDigits(SubSeq(cs, 21, 23))

DateSite(site) ==
    /\ HasEntry(site)
    /\ Descriptor(site).type = "esriFieldTypeDate"
    /\ Descriptor(site).domain.type # "codedValue"
    /\ AttrValue(site) # Null
    /\ LastWriter(site)

\* C5: a non-null value of a date-typed field without a coded-value domain comes
\* out as the ISO-8601 UTC string of the instant it denotes when it makes a valid
\* date, and unchanged when it does not; the property is there in both cases.
C5_DateToIsoOrRaw ==
    Done =>
        \A site \in AttributeSites :
            DateSite(site) =>
                /\ HasProperty(site)
                /\ IF NewDate(AttrValue(site)).valid
                   THEN /\ Property(site).t = "string"
                        /\ WellFormedIso(Property(site).s)
                        /\ IsoToMs(Property(site).s) = NewDate(AttrValue(site)).ms
                   ELSE Property(site) = AttrValue(site)

\* one epoch value came out as the string of its day, and a value that is no
\* date (NaN, "abc") came out as it went in
C5_Witness ==
    /\ Done
    /\ \E site \in AttributeSites :
           /\ DateSite(site)
           /\ AttrValue(site) = Num(MsPerDay)
           /\ Property(site) = Str(IsoDay2 \o <<"T", "0", "0", ":", "0", "0", ":",
                                               "0", "0", ".", "0", "0", "0", "Z">>)
    /\ \E site \in AttributeSites :
           /\ DateSite(site)
           /\ AttrValue(site) \in {NaN, sAbc}
           /\ Property(site) = AttrValue(site)

----------------------------------------------------------------------------
(* C6 *)

\* C6: the output properties of a feature are exactly those of its attributes
\* that have a catalog entry, each under its outName and converted; an attribute
\* without an entry contributes nothing, wherever it stands among the others.
C6_MissingEntryDropsOnlyThatAttribute ==
    Done =>
        /\ \A k \in 1..Len(InFeatures) :
               DOMAIN OutProperties(k) =
                   {Descriptor(<<k, i>>).outName :
                        i \in {i \in 1..Len(InFeatures[k].attributes) : HasEntry(<<k, i>>)}}
        /\ \A site \in AttributeSites :
               (HasEntry(site) /\ LastWriter(site)) =>
                   Property(site) =
                       convertAttribute(Put(EmptyObject, AttrName(site), AttrValue(site)),
                                        Descriptor(site))

\* an attribute without a catalog entry stood before one with an entry, which
\* was converted all the same, and the former is no property
C6_Witness ==
    /\ Done
    /\ \E site \in AttributeSites :
           /\ ~HasEntry(site)
           /\ AttrName(site) \notin DOMAIN OutProperties(site[1])
           /\ \E j \in (site[2] + 1)..Len(InFeatures[site[1]].attributes) :
                  /\ HasEntry(<<site[1], j>>)
                  /\ LastWriter(<<site[1], j>>)
                  /\ HasProperty(<<site[1], j>>)
                  /\ Property(<<site[1], j>>) = Str(<<"N", "1">>)

----------------------------------------------------------------------------
(* C7 *)

\* null for a null or absent geometry, for a conversion that throws and for a
\* result without a non-empty type or without coordinates; the result otherwise
ExpectedGeometry(geometry) ==
    IF geometry.k \in {"null", "undefined"} THEN NullGeometry
    ELSE IF arcgisToGeoJSON(geometry).threw THEN NullGeometry
    ELSE IF arcgisToGeoJSON(geometry).parsed.type = "" THEN NullGeometry
    ELSE IF ~arcgisToGeoJSON(geometry).parsed.hasCoordinates THEN NullGeometry
    ELSE arcgisToGeoJSON(geometry).parsed

\* C7: the output geometry is null when the source geometry is null or absent,
\* when the conversion throws, or when its result lacks a non-empty type or
\* coordinates, and is the conversion's result otherwise; fromEsri never throws
\* because of a geometry.
C7_GeometryNullOrConverted ==
    Done =>
        /\ ~threw
        /\ \A k \in 1..Len(InFeatures) :
               /\ k <= Len(OutFeatures)
               /\ OutFeatures[k].geometry = ExpectedGeometry(InFeatures[k].geometry)

\* a geometry whose conversion throws and a geometry converted without a type
\* came out null, next to a point that was converted
C7_Witness ==
    /\ Done
    /\ ~threw
    /\ Len(OutFeatures) = Len(InFeatures)
    /\ \E k \in 1..Len(InFeatures) :
           /\ InFeatures[k].geometry.k \in {"malformed", "untyped", "empty", "feature"}
           /\ OutFeatures[k].geometry = NullGeometry
    /\ \E k \in 1..Len(InFeatures) :
           /\ InFeatures[k].geometry.k = "point"
           /\ OutFeatures[k].geometry =
                  Geometry("Point", TRUE, <<Num(InFeatures[k].geometry.x),
                                            Num(InFeatures[k].geometry.y)>>)

----------------------------------------------------------------------------
(* What the fromCSV claims are stated over *)

CsvDone == csvPc = "done"

Headers == csv[1]

\* the data rows are rows 1, 2, ... of csv; feature r is that of data row r
DataRowCount == Len(csv) - 1

DataRow(r) == csv[r + 1]

CsvFeatures == csvGeojson.features

\* the headers of the model that are a longitude alias, or a latitude alias,
\* once trimmed and lowered
LonSpellings == {hX, hLon, hLongitude, hLonDeg, hPadX}

LatSpellings == {hY, hLat, hLatitude, hLatDeg, hLAT}

LonColumns == {k \in 1..Len(Headers) : Headers[k] \in LonSpellings}

LatColumns == {k \in 1..Len(Headers) : Headers[k] \in LatSpellings}

\* the cells of the model that are a number other than 0, with the number
NumericCells == {<<c90, 90>>, <<cNeg180, -180>>, <<cPad7, 7>>}

IsNumericCell(row, k) ==
    k \in 1..Len(row) /\ \E p \in NumericCells : p[1] = row[k]

NumberOf(cell) == (CHOOSE p \in NumericCells : p[1] = cell)[2]

----------------------------------------------------------------------------
(* C8 *)

\* C8: when the header row has one longitude column and one latitude column,
\* under any alias, in any case, padded or not and in either order, every data
\* row whose cells in those columns are non-zero numbers gets the geometry
\* Point [longitude, latitude].
C8_PointLongitudeFirst ==
    (CsvDone /\ Cardinality(LonColumns) = 1 /\ Cardinality(LatColumns) = 1) =>
            \A r \in 1..DataRowCount :
                LET a == CHOOSE k \in LonColumns : TRUE
                    b == CHOOSE k \in LatColumns : TRUE
                IN  (IsNumericCell(DataRow(r), a) /\ IsNumericCell(DataRow(r), b)) =>
                        /\ r <= Len(CsvFeatures)
                        /\ CsvFeatures[r].geometry =
                               Geometry("Point", TRUE,
                                        <<Num(NumberOf(DataRow(r)[a])),
                                          Num(NumberOf(DataRow(r)[b]))>>)

\* headers ["y", "x"] and the row ["-180", "90"] gave the coordinates [90, -180]
C8_Witness ==
    /\ CsvDone
    /\ Headers = <<hY, hX>>
    /\ DataRowCount >= 1
    /\ DataRow(1) = <<cNeg180, c90>>
    /\ CsvFeatures[1].geometry = Geometry("Point", TRUE, <<Num(90), Num(-180)>>)

----------------------------------------------------------------------------
(* C9 *)

\* C9: when the header row has no longitude column or no latitude column, every
\* feature fromCSV returns has a null geometry.
C9_NoColumnNoGeometry ==
    (CsvDone /\ (LonColumns = {} \/ LatColumns = {})) =>
            /\ Len(CsvFeatures) = DataRowCount
            /\ \A r \in 1..Len(CsvFeatures) : CsvFeatures[r].geometry = NullGeometry

\* the header row has a longitude column and no latitude column, a row has a
\* number in the longitude column, and its geometry is null
C9_Witness ==
    /\ CsvDone
    /\ LonColumns # {}
    /\ LatColumns = {}
    /\ \E r \in 1..DataRowCount :
           /\ \E k \in LonColumns : IsNumericCell(DataRow(r), k)
           /\ CsvFeatures[r].geometry = NullGeometry

----------------------------------------------------------------------------
(* C10 *)

NonZeroNumber(v) == v.t = "number" /\ v.n # 0

\* C10: a feature of fromCSV with a geometry has two coordinates that are both
\* numbers other than 0 and NaN: a row whose longitude or latitude cell is
\* missing, not a number or 0 has a null geometry.
C10_GeometryOnlyWithNonZeroCoordinates ==
    CsvDone =>
        \A r \in 1..Len(CsvFeatures) :
            ~CsvFeatures[r].geometry.null =>
                /\ Len(CsvFeatures[r].geometry.coordinates) = 2
                /\ NonZeroNumber(CsvFeatures[r].geometry.coordinates[1])
                /\ NonZeroNumber(CsvFeatures[r].geometry.coordinates[2])

----------------------------------------------------------------------------
(* C11 *)

ObjectIdColumns == {k \in 1..Len(Headers) : Headers[k] = sOBJECTID}

\* C11: the OBJECTID property of a feature is the row index only when the header
\* row has no column named OBJECTID; when it has one, the OBJECTID property of a
\* row with a number in that column is that number, never the row index.
C11_ObjectIdOnlyWhenAbsent ==
    CsvDone =>
        \A r \in 1..DataRowCount :
            /\ r <= Len(CsvFeatures)
            /\ ObjectIdColumns = {} =>
                   Get(CsvFeatures[r].properties, sOBJECTID) = Num(r)
            /\ \A k \in ObjectIdColumns :
                   IsNumericCell(DataRow(r), k) =>
                       Get(CsvFeatures[r].properties, sOBJECTID) =
                           Num(NumberOf(DataRow(r)[k]))

----------------------------------------------------------------------------
(* C12 *)

\* the source name with every ".", "(" and ")" removed and every whitespace
\* character replaced by "_"
SanitizedName(name) ==
    LET kept == SelectSeq(name, LAMBDA c : c \notin {".", "(", ")"})
    IN  [i \in 1..Len(kept) |-> IF IsSpace(kept[i]) THEN "_" ELSE kept[i]]

\* C12: the outName of every descriptor of the catalog, and the property key of
\* every CSV header that has a cell in a data row, is the sanitized source name:
\* ".", "(" and ")" removed, whitespace replaced by "_".
C12_OutputNamesSanitized ==
    /\ (Done /\ ~threw) =>
           \A name \in DOMAIN fields : fields[name].outName = SanitizedName(name)
    /\ CsvDone =>
           \A r \in 1..DataRowCount :
               /\ r <= Len(CsvFeatures)
               /\ \A k \in 1..Len(Headers) :
                      k <= Len(DataRow(r)) =>
                          /\ SanitizedName(Headers[k]) \in
                                 DOMAIN CsvFeatures[r].properties
                          /\ Headers[k] # SanitizedName(Headers[k]) =>
                                 Headers[k] \notin DOMAIN CsvFeatures[r].properties

----------------------------------------------------------------------------
(* C13 *)

\* C13: row 0 of the CSV is the header row and fromCSV returns a
\* FeatureCollection with one feature for each later row, in row order: the
\* k-th feature has id k and is the feature built from data row k.
C13_OneFeaturePerDataRow ==
    CsvDone =>
        /\ csvGeojson.type = "FeatureCollection"
        /\ Len(CsvFeatures) = DataRowCount
        /\ \A r \in 1..DataRowCount :
               /\ CsvFeatures[r].type = "Feature"
               /\ CsvFeatures[r].id = r
               /\ CsvFeatures[r] = CsvFeature(Headers, LatLon(Headers), DataRow(r), r)

\* two different data rows gave two features, each with its own row's cells
C13_Witness ==
    /\ CsvDone
    /\ Headers = <<hX, hName>>
    /\ DataRowCount = 2
    /\ DataRow(1) = <<c90, cAbc>>
    /\ DataRow(2) = <<cNeg180, c0>>
    /\ Len(CsvFeatures) = 2
    /\ Get(CsvFeatures[1].properties, hX) = Num(90)
    /\ Get(CsvFeatures[2].properties, hX) = Num(-180)

----------------------------------------------------------------------------
(* C16 *)

FirstOf(columns) == CHOOSE k \in columns : \A j \in columns : k <= j

LastOf(columns) == CHOOSE k \in columns : \A j \in columns : j <= k

\* the data rows with a non-zero number in column a and in column b have the
\* geometry Point [cell a, cell b]
PointFromColumns(a, b) ==
    \A r \in 1..DataRowCount :
        (IsNumericCell(DataRow(r), a) /\ IsNumericCell(DataRow(r), b)) =>
            /\ r <= Len(CsvFeatures)
            /\ CsvFeatures[r].geometry =
                   Geometry("Point", TRUE, <<Num(NumberOf(DataRow(r)[a])),
                                             Num(NumberOf(DataRow(r)[b]))>>)

\* C16 as claimed: with several longitude columns, or several latitude columns,
\* in the header row, the coordinate of every data row is taken from the first
\* such column in header order.
C16_FirstMatchingColumn ==
    (CsvDone /\ LonColumns # {} /\ LatColumns # {}) =>
        PointFromColumns(FirstOf(LonColumns), FirstOf(LatColumns))

\* C16: with several longitude columns, or several latitude columns, in the
\* header row, the coordinate of every data row is taken from the last such
\* column in header order.
C16_LastMatchingColumn ==
    (CsvDone /\ LonColumns # {} /\ LatColumns # {}) =>
        PointFromColumns(LastOf(LonColumns), LastOf(LatColumns))

\* headers ["x", "y", "x"] and the row ["1,000", " 7", "-180"] gave the longitude
\* of the third column; headers ["lat", "lon", "y"] gave the latitude of the third
C16_Witness ==
    /\ CsvDone
    /\ DataRowCount >= 1
    /\ DataRow(1) = <<cThousand, cPad7, cNeg180>>
    /\ \/ /\ Headers = <<hX, hY, hX>>
          /\ CsvFeatures[1].geometry = Geometry("Point", TRUE, <<Num(-180), Num(7)>>)
       \/ /\ Headers = <<hLat, hLon, hY>>
          /\ CsvFeatures[1].geometry = Geometry("Point", TRUE, <<Num(7), Num(-180)>>)

----------------------------------------------------------------------------
(* C17 *)

\* the cells of the model that are a number once their commas are removed, with
\* the number
CleanNumbers == {<<c90, 90>>, <<cNeg180, -180>>, <<c0, 0>>, <<cThousand, 1000>>}

\* the cells of the model that are no number: text, a number followed by text,
\* the empty cell and the cell of blanks
NotNumbers == {cAbc, c12a, cEmpty, cBlank}

\* column k of data row r has a cell and a header, and no later cell of the row
\* is stored under the same header
OwnsProperty(r, k) ==
    /\ k \in 1..Len(DataRow(r))
    /\ k \in 1..Len(Headers)
    /\ Headers[k] # sOBJECTID
    /\ \A j \in (k + 1)..Len(DataRow(r)) : HeaderKey(Headers, j - 1) # Headers[k]

\* C17: for every header/cell pair of a data row, the property is the number the
\* cell denotes when the cell without its commas is a number, and is the cell's
\* own string otherwise; an empty cell or a cell of blanks stays a string and is
\* never NaN.
C17_NumberOrOriginalString ==
    CsvDone =>
        \A r \in 1..DataRowCount :
            /\ r <= Len(CsvFeatures)
            /\ \A k \in 1..Len(DataRow(r)) :
                   OwnsProperty(r, k) =>
                       LET cell == DataRow(r)[k]
                           value == Get(CsvFeatures[r].properties, Headers[k])
                       IN  /\ \A p \in CleanNumbers : p[1] = cell => value = Num(p[2])
                           /\ cell \in NotNumbers => value = Str(cell)
                           /\ value # NaN

----------------------------------------------------------------------------
(* C14 *)

\* a field list without the outName convertFields attached to its descriptors
Unmarked(fl) ==
    [def |-> fl.def,
     list |-> [i \in 1..Len(fl.list) |->
                  [fl.list[i] EXCEPT !.hasOutName = FALSE, !.outName = << >>]]]

\* the second fromEsri call got the payload of the first: the same features and
\* the same fields, with or without the outName the first call attached
SamePayloadAgain ==
    /\ pc = "again"
    /\ again.args.json.features = args.json.features
    /\ Unmarked(again.args.json.fields) = args.json.fields

\* C14: a second fromEsri call with the payload and the options object of the
\* first returns (or throws) what the first did, whatever the first call left on
\* the descriptors and on the options; a second fromCSV call with the same rows
\* returns what the first did.
C14_SecondCallSameResult ==
    /\ SamePayloadAgain => (again.threw = threw /\ again.geojson = geojson)
    /\ csvPc = "again" => csvAgain = csvGeojson

\* the second call got the descriptors with the outName of the first call on
\* them, through the payload and through the fields the first call left on the
\* options, and returned the same feature with a property
C14_Witness ==
    /\ SamePayloadAgain
    /\ ~args.opts.fields.def
    /\ again.args.opts.fields.def
    /\ again.args.json.fields.def
    /\ \E i \in 1..Len(again.args.json.fields.list) :
           again.args.json.fields.list[i].hasOutName
    /\ ~threw
    /\ Len(geojson.features) >= 1
    /\ DOMAIN geojson.features[1].properties # {}
    /\ again.geojson = geojson

----------------------------------------------------------------------------
(* C15 *)

\* the caller's payload after the first call is the payload it passed, but for
\* the outName of its descriptors
PayloadOnlyMarked ==
    /\ esriJSON.features = args.json.features
    /\ Unmarked(esriJSON.fields) = args.json.fields

\* the caller's options object has a fields key after the first call only if it
\* had one before
NoFieldsKeyAdded ==
    /\ options.k = args.opts.k
    /\ options.items = args.opts.items
    /\ options.fields.def = args.opts.fields.def

\* C15: a fromEsri call changes nothing of the caller's but the outName of the
\* field descriptors and adds no fields key to the caller's options object; so
\* when an options object without fields is used for a second call with another
\* payload, the catalog of the second call is built from the fields of the second
\* payload.
C15_OptionsLeftWithoutFields ==
    /\ Done => (PayloadOnlyMarked /\ NoFieldsKeyAdded)
    /\ (pc = "again" /\ args.opts.k = "object" /\ ~args.opts.fields.def) =>
           again.fields = convertFields(again.args.json.fields)

====
